---- MODULE Spec2Model ----
(***************************************************************************)
(* The A/B-testing notebook AB-Testing_CTR.ipynb as a state machine.  The  *)
(* state is the notebook kernel (one variable per Python name that a later *)
(* cell reads), the input is the click-data frame df, and there is one     *)
(* action per code cell, run in notebook order ("Run All"), stopping at    *)
(* the first exception.  stdout holds the verdict lines the cells print,   *)
(* in order, without the values that are formatted into them; the plot     *)
(* cells assign no name that a later cell reads and have no action.        *)
(*                                                                         *)
(* np.float64 values are modelled as decimal floating-point numbers with   *)
(* an eight-digit mantissa (TLC integers are 32 bits wide), rounded half   *)
(* to even, together with the special values nan and +/-inf that numpy     *)
(* produces instead of raising on a division by zero.                      *)
(***************************************************************************)
EXTENDS Integers, Sequences, FiniteSets, TLC

(***************************************************************************)
(* np.float64 arithmetic                                                   *)
(***************************************************************************)

\* Mantissas of finite non-zero values lie in MantMin .. MantMax - 1.
MantMax == 10^8
MantMin == 10^7
Limb == 10^4

Abs(n) == IF n < 0 THEN -n ELSE n
Sgn(n) == IF n < 0 THEN -1 ELSE IF n > 0 THEN 1 ELSE 0

\* <<q, r>> with top * MantMax + low = q * MantMax + r and 0 <= r < MantMax
CarryLow(top, low) == <<top + low \div MantMax, low % MantMax>>

\* The product c2 * Limb^2 + c1 * Limb + c0 as <<q, r>>
Carry(c2, c1, c0) == CarryLow(c2 + c1 \div Limb, (c1 % Limb) * Limb + c0)

\* <<q, r>> with a * b = q * MantMax + r and 0 <= r < MantMax, for
\* 0 <= a, b <= MantMax, computed limb by limb without leaving 32 bits.
MulQR(a, b) ==
  Carry((a \div Limb) * (b \div Limb),
        (a % Limb) * (b \div Limb) + (a \div Limb) * (b % Limb),
        (a % Limb) * (b % Limb))

\* <<q, r>> after n more decimal digits of the long division of r by b,
\* for 0 <= r < b <= MantMax.
RECURSIVE LongDiv(_, _, _, _)
LongDiv(q, r, b, n) ==
  IF n = 0 THEN <<q, r>>
  ELSE LongDiv(q * 10 + (r * 10) \div b, (r * 10) % b, b, n - 1)

\* q + r/c rounded to the nearest integer, ties to even (IEEE 754 default).
RoundHalfEven(q, r, c) ==
  IF 2 * r > c \/ (2 * r = c /\ q % 2 = 1) THEN q + 1 ELSE q

\* n / c rounded to the nearest integer, ties to even, for any sign of n.
RoundDiv(n, c) == Sgn(n) * RoundHalfEven(Abs(n) \div c, Abs(n) % c, c)

\* The finite float m * 10^e; m is 0 or has eight digits.
Num(m, e) == [cls |-> "num", m |-> m, e |-> e]
NaN == [cls |-> "nan", m |-> 0, e |-> 0]
Inf(s) == [cls |-> "inf", m |-> s, e |-> 0]
Zero == Num(0, 0)
One == Num(10000000, -7)
Two == Num(20000000, -7)
Half == Num(50000000, -8)
\* A Python name that has not been assigned yet.
Unset == [cls |-> "unset", m |-> 0, e |-> 0]

IsNaN(x) == x.cls = "nan"
IsNum(x) == x.cls = "num"
IsInf(x) == x.cls = "inf"

\* The float m * 10^e for any int m, normalised.
RECURSIVE Dec(_, _)
Dec(m, e) ==
  IF m = 0 THEN Zero
  ELSE IF Abs(m) >= MantMax THEN Dec(RoundDiv(m, 10), e + 1)
  ELSE IF Abs(m) < MantMin THEN Dec(m * 10, e - 1)
  ELSE Num(m, e)

\* int -> np.float64
Flt(n) == Dec(n, 0)

FNeg(x) == IF IsNaN(x) THEN NaN ELSE [x EXCEPT !.m = -x.m]
FAbs(x) == IF IsNaN(x) THEN NaN ELSE [x EXCEPT !.m = Abs(x.m)]

\* hi + lo for finite non-zero hi, lo with hi.e - lo.e = sh >= 0; the sum
\* is formed with one guard digit below hi.
AddShifted(hi, lo, sh) ==
  IF sh > 9 THEN hi
  ELSE Dec(hi.m * 10 + (IF sh = 0 THEN lo.m * 10
                        ELSE RoundDiv(lo.m, 10^(sh - 1))),
           hi.e - 1)

FAdd(a, b) ==
  IF IsNaN(a) \/ IsNaN(b) THEN NaN
  ELSE IF IsInf(a) THEN (IF IsInf(b) /\ b.m # a.m THEN NaN ELSE a)
  ELSE IF IsInf(b) THEN b
  ELSE IF a.m = 0 THEN b
  ELSE IF b.m = 0 THEN a
  ELSE IF a.e >= b.e THEN AddShifted(a, b, a.e - b.e)
  ELSE AddShifted(b, a, b.e - a.e)

FSub(a, b) == FAdd(a, FNeg(b))

\* s * (qr[1] * MantMax + qr[2]) * 10^e, rounded to eight digits
MulRound(s, qr, e) ==
  IF qr[1] >= MantMin
  THEN Dec(s * RoundHalfEven(qr[1], qr[2], MantMax), e + 8)
  ELSE Dec(s * RoundHalfEven(qr[1] * 10 + qr[2] \div MantMin,
                             qr[2] % MantMin, MantMin),
           e + 7)

FMul(a, b) ==
  IF IsNaN(a) \/ IsNaN(b) THEN NaN
  ELSE IF IsInf(a) \/ IsInf(b)
       THEN (IF a.m = 0 \/ b.m = 0 THEN NaN ELSE Inf(Sgn(a.m) * Sgn(b.m)))
  ELSE IF a.m = 0 \/ b.m = 0 THEN Zero
  ELSE MulRound(Sgn(a.m) * Sgn(b.m), MulQR(Abs(a.m), Abs(b.m)), a.e + b.e)

\* s * (qr[1] + qr[2] / bm) * 10^e, rounded to eight digits
DivRound(s, qr, bm, e) == Dec(s * RoundHalfEven(qr[1], qr[2], bm), e)

\* numpy scalar division: x/0 is +/-inf (nan for 0/0) with a RuntimeWarning,
\* never an exception.
FDiv(a, b) ==
  IF IsNaN(a) \/ IsNaN(b) THEN NaN
  ELSE IF IsInf(a) THEN (IF IsInf(b) THEN NaN
                         ELSE Inf(a.m * (IF b.m < 0 THEN -1 ELSE 1)))
  ELSE IF IsInf(b) THEN Zero
  ELSE IF b.m = 0 THEN (IF a.m = 0 THEN NaN ELSE Inf(Sgn(a.m)))
  ELSE IF a.m = 0 THEN Zero
  ELSE IF Abs(a.m) >= Abs(b.m)
  THEN DivRound(Sgn(a.m) * Sgn(b.m),
                LongDiv(Abs(a.m) \div Abs(b.m), Abs(a.m) % Abs(b.m), Abs(b.m), 7),
                Abs(b.m), a.e - b.e - 7)
  ELSE DivRound(Sgn(a.m) * Sgn(b.m), LongDiv(0, Abs(a.m), Abs(b.m), 8),
                Abs(b.m), a.e - b.e - 8)

\* -1, 0 or 1 as a < b, a = b or a > b, from the signs, exponents and
\* mantissas of a and b.
CmpKeys(sa, sb, ea, eb, ma, mb) ==
  IF sa # sb THEN (IF sa < sb THEN -1 ELSE 1)
  ELSE IF sa = 0 THEN 0
  ELSE IF ea # eb THEN (IF ea < eb THEN -sa ELSE sa)
  ELSE IF ma < mb THEN -1
  ELSE IF ma > mb THEN 1
  ELSE 0

\* The exponent that orders x among values of its sign (inf above all).
Expo(x) == IF IsInf(x) THEN 10^6 ELSE x.e

\* Neither argument is nan.
FCmp(a, b) == CmpKeys(Sgn(a.m), Sgn(b.m), Expo(a), Expo(b), a.m, b.m)

\* Python comparisons: every comparison with nan is False.
FLt(a, b) == ~IsNaN(a) /\ ~IsNaN(b) /\ FCmp(a, b) < 0
FLe(a, b) == ~IsNaN(a) /\ ~IsNaN(b) /\ FCmp(a, b) <= 0
FEq(a, b) == ~IsNaN(a) /\ ~IsNaN(b) /\ FCmp(a, b) = 0

\* Newton's iteration g <- (g + x/g) / 2, n times.
RECURSIVE Newton(_, _, _)
Newton(g, x, n) ==
  IF n = 0 THEN g
  ELSE Newton(FMul(Half, FAdd(g, FDiv(x, g))), x, n - 1)

\* p <= X (p < X with strict) for pairs <<q, r>> standing for q * MantMax + r
PairLeq(p, X, strict) ==
  \/ p[1] < X[1]
  \/ p[1] = X[1] /\ (IF strict THEN p[2] < X[2] ELSE p[2] <= X[2])

\* u * v <= m * 10^k (strictly less with strict), for k = 7 or 8.
ProdLeq(u, v, m, k, strict) ==
  PairLeq(MulQR(u, v),
          IF k = 8 THEN <<m, 0>> ELSE <<m \div 10, (m % 10) * MantMin>>,
          strict)

\* The integer square root of m * 10^k, which lies within 3 of g0.
FloorRoot(m, k, g0) ==
  CHOOSE t \in (g0 - 3) .. (g0 + 3) :
    ProdLeq(t, t, m, k, FALSE) /\ ~ProdLeq(t + 1, t + 1, m, k, FALSE)

\* root or root + 1, whichever is nearer the square root of m * 10^k
NearestRoot(m, k, root) ==
  IF ProdLeq(root, root + 1, m, k, TRUE) THEN root + 1 ELSE root

\* The mantissa of the float g at exponent re or re + 1, at exponent re
MantAt(g, re) == IF g.e > re THEN g.m * 10 ELSE g.m

\* sqrt(x.m * 10^k) * 10^re, from the Newton iterate started at seed
SqrtNum(x, k, re, seed) ==
  Dec(NearestRoot(x.m, k, FloorRoot(x.m, k, MantAt(Newton(seed, x, 6), re))),
      re)

\* np.sqrt: correctly rounded; nan (with a RuntimeWarning) for a negative
\* argument.
FSqrt(x) ==
  IF IsNaN(x) THEN NaN
  ELSE IF IsInf(x) THEN (IF x.m > 0 THEN x ELSE NaN)
  ELSE IF x.m < 0 THEN NaN
  ELSE IF x.m = 0 THEN Zero
  ELSE IF x.e % 2 = 1
  THEN SqrtNum(x, 7, (x.e - 7) \div 2, Num(20000000, (x.e - 7) \div 2))
  ELSE SqrtNum(x, 8, (x.e - 8) \div 2, Num(60000000, (x.e - 8) \div 2))

\* x.m * 10^x.e rounded to a multiple of 10^-nd, dropping drop digits
RoundDrop(x, nd, drop) ==
  IF drop <= 0 THEN x
  ELSE IF drop > 9 THEN Zero
  ELSE Dec(RoundDiv(x.m, 10^drop), 0 - nd)

\* round(x, nd) on an np.float64: to the nearest multiple of 10^-nd, ties
\* to even; nan and inf are returned as they are.
FRound(x, nd) == IF ~IsNum(x) THEN x ELSE RoundDrop(x, nd, (0 - nd) - x.e)

(***************************************************************************)
(* scipy.stats.norm                                                        *)
(***************************************************************************)

\* The standard normal survival function at the knots <<z, sf(z)>>: every
\* quarter from 0 to 6, the two-sided critical values of 10%, 5% and 1%,
\* and 8.  Between knots the model interpolates linearly.
NormKnots ==
  <<
     <<Zero, Num(50000000, -8)>>,
     <<Num(25000000, -8), Num(40129367, -8)>>,
     <<Num(50000000, -8), Num(30853754, -8)>>,
     <<Num(75000000, -8), Num(22662735, -8)>>,
     <<Num(10000000, -7), Num(15865525, -8)>>,
     <<Num(12500000, -7), Num(10564977, -8)>>,
     <<Num(15000000, -7), Num(66807201, -9)>>,
     <<Num(16448536, -7), Num(50000000, -9)>>,
     <<Num(17500000, -7), Num(40059157, -9)>>,
     <<Num(19599640, -7), Num(25000000, -9)>>,
     <<Num(20000000, -7), Num(22750132, -9)>>,
     <<Num(22500000, -7), Num(12224473, -9)>>,
     <<Num(25000000, -7), Num(62096653, -10)>>,
     <<Num(25758293, -7), Num(50000000, -10)>>,
     <<Num(27500000, -7), Num(29797632, -10)>>,
     <<Num(30000000, -7), Num(13498980, -10)>>,
     <<Num(32500000, -7), Num(57702504, -11)>>,
     <<Num(35000000, -7), Num(23262908, -11)>>,
     <<Num(37500000, -7), Num(88417285, -12)>>,
     <<Num(40000000, -7), Num(31671242, -12)>>,
     <<Num(42500000, -7), Num(10688526, -12)>>,
     <<Num(45000000, -7), Num(33976731, -13)>>,
     <<Num(47500000, -7), Num(10170832, -13)>>,
     <<Num(50000000, -7), Num(28665157, -14)>>,
     <<Num(52500000, -7), Num(76049605, -15)>>,
     <<Num(55000000, -7), Num(18989562, -15)>>,
     <<Num(57500000, -7), Num(44621725, -16)>>,
     <<Num(60000000, -7), Num(98658765, -17)>>,
     <<Num(80000000, -7), Num(62209606, -23)>>
  >>

\* The knot segment i with z[i] <= z < z[i + 1]; the last knot when z is
\* beyond it.
SegmentByZ(z) ==
  CHOOSE i \in 1 .. Len(NormKnots) :
    /\ FLe(NormKnots[i][1], z)
    /\ i < Len(NormKnots) => FLt(z, NormKnots[i + 1][1])

\* The knot segment i with sf[i] >= p > sf[i + 1]
SegmentByP(p) ==
  CHOOSE i \in 1 .. Len(NormKnots) :
    /\ i > 1 => FLe(p, NormKnots[i][2])
    /\ i < Len(NormKnots) => FLt(NormKnots[i + 1][2], p)

\* The line through <<x0, y0>> and <<x1, y1>>, at x
Interpolate(x, x0, y0, x1, y1) ==
  FAdd(y0, FMul(FDiv(FSub(x, x0), FSub(x1, x0)), FSub(y1, y0)))

\* The survival function on segment i, at z
SfOnSegment(z, i, knots) ==
  IF i = Len(knots) THEN knots[i][2]
  ELSE Interpolate(z, knots[i][1], knots[i][2], knots[i + 1][1], knots[i + 1][2])

\* The inverse survival function on segment i, at p
IsfOnSegment(p, i, knots) ==
  IF i = Len(knots) THEN knots[i][1]
  ELSE Interpolate(p, knots[i][2], knots[i][1], knots[i + 1][2], knots[i + 1][1])

\* v, or 1 - v when reflect
Complement(reflect, v) == IF reflect THEN FSub(One, v) ELSE v
\* v, or -v when reflect
Negate(reflect, v) == IF reflect THEN FNeg(v) ELSE v

\* scipy.stats.norm.sf
NormSf(z) ==
  IF IsNaN(z) THEN NaN
  ELSE IF IsInf(z) THEN (IF z.m > 0 THEN Zero ELSE One)
  ELSE Complement(z.m < 0, SfOnSegment(FAbs(z), SegmentByZ(FAbs(z)), NormKnots))

\* norm.isf(p) for 0 < p <= 1/2
IsfUpper(p) == IsfOnSegment(p, SegmentByP(p), NormKnots)

\* scipy.stats.norm.ppf: nan outside [0, 1], -inf at 0 and +inf at 1.
NormPpf(q) ==
  IF IsNaN(q) \/ IsInf(q) THEN NaN
  ELSE IF FLt(q, Zero) \/ FLt(One, q) THEN NaN
  ELSE IF q.m = 0 THEN Inf(-1)
  ELSE IF FEq(q, One) THEN Inf(1)
  ELSE Negate(FLt(q, Half),
              IsfUpper(IF FLt(q, Half) THEN q ELSE FSub(One, q)))

\* scipy.stats.norm.isf
NormIsf(p) == FNeg(NormPpf(p))

(***************************************************************************)
(* The data frame and the kernel                                           *)
(***************************************************************************)

\* Bounds of the explored inputs.
MaxUsers == 2
MaxRows == 3

Groups == {"con", "exp"}
\* Values of the click column: 0 and 1 are outcomes, 2 is a malformed one.
ClickValues == {0, 1, 2}

\* A df entry stands for the run of CSV rows with user_id = user_lo ..
\* user_hi, one row per user id, all of the same group and click value.
RowBlock(lo, hi, g, c) ==
  [user_lo |-> lo, user_hi |-> hi, group |-> g, click |-> c]

SingleRows ==
  {RowBlock(u, u, g, c) : u \in 1 .. MaxUsers, g \in Groups, c \in ClickValues}

RowRank(r) ==
  (r.user_lo * 2 + (IF r.group = "con" THEN 0 ELSE 1)) * 3 + r.click

\* Every frame of at most MaxRows rows, users repeated or not, groups
\* present or not.  No aggregation of the notebook depends on the order of
\* the rows, so one order stands for all of them.
RECURSIVE FramesUpTo(_)
FramesUpTo(n) ==
  IF n = 0 THEN {<<>>}
  ELSE LET shorter == FramesUpTo(n - 1)
       IN  shorter \cup
           {Append(q[1], q[2]) :
              q \in {p \in shorter \X SingleRows :
                       /\ Len(p[1]) = n - 1
                       /\ n > 1 => RowRank(p[1][n - 1]) <= RowRank(p[2])}}

SmallFrames == FramesUpTo(MaxRows)

\* The frame of a clean experiment: nc control users of whom xc clicked,
\* ne experimental users of whom xe clicked, one row per user.
CleanFrame(nc, xc, ne, xe) ==
  SelectSeq(<<RowBlock(1, xc, "con", 1),
              RowBlock(xc + 1, nc, "con", 0),
              RowBlock(nc + 1, nc + xe, "exp", 1),
              RowBlock(nc + xe + 1, nc + ne, "exp", 0)>>,
            LAMBDA r : r.user_lo <= r.user_hi)

\* Group sizes of the clean experiments that are explored in full.
CleanSizes == {7, 12}

CleanFrames ==
  UNION {{CleanFrame(p[1], xc, p[2], xe) : xc \in 0 .. p[1], xe \in 0 .. p[2]} :
           p \in CleanSizes \X CleanSizes}

\* The experiment of 40000 users per group.
LargeFrames == {CleanFrame(40000, 1580, 40000, 1850)}

Frames == SmallFrames \cup CleanFrames \cup LargeFrames

\* Significance levels and minimum detectable effects the parameter cell is
\* run with; the notebook as written has alpha = 0.05 and delta = 0.1.
Alphas == {Num(50000000, -9), Num(10000000, -9)}
Deltas == {Num(10000000, -8), Num(50000000, -9)}

VARIABLES
  df, pc, exc, stdout,
  alpha, delta,
  dfCounts, CTR,
  X_con, X_exp, N_con, N_exp, p_con_hat, p_exp_hat, p_pooled_hat,
  pooled_variance, SE, Test_stat, Z_crit,
  p_value,
  CI, lower_bound_CI,
  num_con, num_exp, successes, nobs, z_stat, pval,
  lower_con, lower_exp, upper_con, upper_exp, delta_CI,
  pooled_std_dev, d, effect

paramVars == <<alpha, delta>>
loadVars == <<dfCounts, CTR>>
countVars == <<X_con, X_exp, N_con, N_exp, p_con_hat, p_exp_hat, p_pooled_hat>>
zVars == <<pooled_variance, SE, Test_stat, Z_crit>>
ciVars == <<CI, lower_bound_CI>>
twoVars == <<num_con, num_exp, successes, nobs, z_stat, pval,
             lower_con, lower_exp, upper_con, upper_exp, delta_CI,
             pooled_std_dev, d, effect>>
vars == <<df, pc, exc, stdout, paramVars, loadVars, countVars, zVars,
          p_value, ciVars, twoVars>>

\* An int name that has not been assigned yet.
NoInt == 0 - 1

(***************************************************************************)
(* pandas aggregations                                                     *)
(***************************************************************************)

BlockLen(r) == r.user_hi - r.user_lo + 1

GroupsIn(data) == {data[i].group : i \in 1 .. Len(data)}

\* df[df['group'] == g]
RowsOf(data, g) == SelectSeq(data, LAMBDA r : r.group = g)

\* Series.count()
RECURSIVE Count(_)
Count(rows) ==
  IF rows = <<>> THEN 0 ELSE BlockLen(Head(rows)) + Count(Tail(rows))

\* Series.sum() of the click column
RECURSIVE SumClick(_)
SumClick(rows) ==
  IF rows = <<>> THEN 0
  ELSE Head(rows).click * BlockLen(Head(rows)) + SumClick(Tail(rows))

\* Series.nunique() of the user_id column
NUnique(rows) ==
  Cardinality(UNION {rows[i].user_lo .. rows[i].user_hi : i \in 1 .. Len(rows)})

\* Series.mean() of the click column
Mean(rows) == FDiv(Flt(SumClick(rows)), Flt(Count(rows)))

Square(x) == FMul(x, x)

\* sum((x - mu) ** 2) over the click column
RECURSIVE SumSqDev(_, _)
SumSqDev(rows, mu) ==
  IF rows = <<>> THEN Zero
  ELSE FAdd(FMul(Flt(BlockLen(Head(rows))), Square(FSub(Flt(Head(rows).click), mu))),
            SumSqDev(Tail(rows), mu))

\* std_dev = lambda x: np.std(x, ddof = 0)
std_dev(rows) ==
  FSqrt(FDiv(SumSqDev(rows, Mean(rows)), Flt(Count(rows))))

\* std_err = lambda x: stats.sem(x, ddof=0)
std_err(rows) == FDiv(std_dev(rows), FSqrt(Flt(Count(rows))))

(***************************************************************************)
(* The cells                                                               *)
(***************************************************************************)

NoPair == <<Unset, Unset>>

Init ==
  /\ df \in Frames
  /\ pc = "load"
  /\ exc = ""
  /\ stdout = <<>>
  /\ alpha = Unset /\ delta = Unset
  /\ dfCounts = <<>> /\ CTR = <<>>
  /\ X_con = NoInt /\ X_exp = NoInt /\ N_con = NoInt /\ N_exp = NoInt
  /\ p_con_hat = Unset /\ p_exp_hat = Unset /\ p_pooled_hat = Unset
  /\ pooled_variance = Unset /\ SE = Unset /\ Test_stat = Unset
  /\ Z_crit = Unset
  /\ p_value = Unset
  /\ CI = NoPair /\ lower_bound_CI = Unset
  /\ num_con = NoInt /\ num_exp = NoInt
  /\ successes = <<>> /\ nobs = <<>>
  /\ z_stat = Unset /\ pval = Unset
  /\ lower_con = Unset /\ lower_exp = Unset
  /\ upper_con = Unset /\ upper_exp = Unset
  /\ delta_CI = Unset
  /\ pooled_std_dev = Unset /\ d = Unset /\ effect = ""

\* df.groupby('group').agg({'user_id': 'nunique', 'click': 'sum'}): one row
\* per group that occurs in df.
GroupCounts(data) ==
  [g \in GroupsIn(data) |->
     [users |-> NUnique(RowsOf(data, g)), click |-> SumClick(RowsOf(data, g))]]

\* df.groupby('group')['click'].agg(['mean', std_dev, std_err])
GroupCTR(data) ==
  [g \in GroupsIn(data) |->
     [CTR           |-> Mean(RowsOf(data, g)),
      std_deviation |-> std_dev(RowsOf(data, g)),
      std_error     |-> std_err(RowsOf(data, g))]]

\* Cell "Load and review dataset"
LoadData ==
  /\ pc = "load"
  /\ dfCounts' = GroupCounts(df)
  /\ CTR' = GroupCTR(df)
  /\ pc' = "params"
  /\ UNCHANGED <<df, exc, stdout, paramVars, countVars, zVars, p_value,
                 ciVars, twoVars>>

\* Cell "Statistical analysis parameters"
Parameters ==
  /\ pc = "params"
  /\ alpha' \in Alphas
  /\ delta' \in Deltas
  /\ pc' = "counts"
  /\ UNCHANGED <<df, exc, stdout, loadVars, countVars, zVars, p_value,
                 ciVars, twoVars>>

\* The pooled rate with the experimental users left out of the denominator.
PooledRateControlOnly(xc, xe, nc, ne) == FDiv(Flt(xc + xe), Flt(nc))

\* p_pooled_hat = (X_con + X_exp) / (N_con + N_exp)
PooledRate(xc, xe, nc, ne) == FDiv(Flt(xc + xe), Flt(nc + ne))

\* Cell "Get counts for users and clicks by group": dfCounts.loc raises
\* KeyError for a group that has no row.
GetCounts ==
  /\ pc = "counts"
  /\ IF Groups \subseteq DOMAIN dfCounts
     THEN /\ X_con' = dfCounts["con"].click
          /\ X_exp' = dfCounts["exp"].click
          /\ N_con' = dfCounts["con"].users
          /\ N_exp' = dfCounts["exp"].users
          /\ p_con_hat' = FDiv(Flt(X_con'), Flt(N_con'))
          /\ p_exp_hat' = FDiv(Flt(X_exp'), Flt(N_exp'))
          /\ p_pooled_hat' = PooledRate(X_con', X_exp', N_con', N_exp')
          /\ pc' = "variance"
          /\ exc' = exc
     ELSE /\ exc' = "KeyError"
          /\ pc' = "halted"
          /\ UNCHANGED countVars
  /\ UNCHANGED <<df, stdout, paramVars, loadVars, zVars, p_value, ciVars,
                 twoVars>>

\* The pooled variance with 1 / N_con counted twice.
PooledVarianceControlTwice(p, nc, ne) ==
  FMul(FMul(p, FSub(One, p)),
       FAdd(FDiv(One, Flt(nc)), FDiv(One, Flt(nc))))

\* pooled_variance = p_pooled_hat * (1 - p_pooled_hat) * (1 / N_con + 1 / N_exp)
PooledVariance(p, nc, ne) ==
  FMul(FMul(p, FSub(One, p)),
       FAdd(FDiv(One, Flt(nc)), FDiv(One, Flt(ne))))

\* Cell "Calculate pooled variance"
CalcPooledVariance ==
  /\ pc = "variance"
  /\ pooled_variance' = PooledVariance(p_pooled_hat, N_con, N_exp)
  /\ pc' = "zstat"
  /\ UNCHANGED <<df, exc, stdout, paramVars, loadVars, countVars, SE,
                 Test_stat, Z_crit, p_value, ciVars, twoVars>>

\* The test statistic with the two rates in the order of the interval.
TestStatReversed(pcon, pexp, se) == FDiv(FSub(pexp, pcon), se)

\* The test statistic with the rates added instead of subtracted.
TestStatSum(pcon, pexp, se) == FDiv(FAdd(pcon, pexp), se)

\* Test_stat = (p_con_hat - p_exp_hat) / SE
TestStat(pcon, pexp, se) == FDiv(FSub(pcon, pexp), se)

\* Z_crit = norm.ppf(1-alpha/2)
ZCrit(a) == NormPpf(FSub(One, FDiv(a, Two)))

\* Cell "Calculate standard error"
CalcTestStat ==
  /\ pc = "zstat"
  /\ SE' = FSqrt(pooled_variance)
  /\ Test_stat' = TestStat(p_con_hat, p_exp_hat, SE')
  /\ Z_crit' = ZCrit(alpha)
  /\ pc' = "pvalue"
  /\ UNCHANGED <<df, exc, stdout, paramVars, loadVars, countVars,
                 pooled_variance, p_value, ciVars, twoVars>>

\* p_value = 2 * norm.sf(abs(Test_stat))
PValue(z) == FMul(Two, NormSf(FAbs(z)))

SigMsg == "The experimental results are statistically significant."
NotSigMsg == "The experimental results are NOT statistically significant."

\* if p_value <= alpha: ... else: ...
SignificanceMsg(p, a) == IF FLe(p, a) THEN SigMsg ELSE NotSigMsg

\* Cell "Calculate p-value"
CalcPValue ==
  /\ pc = "pvalue"
  /\ p_value' = PValue(Test_stat)
  /\ stdout' = Append(stdout, SignificanceMsg(p_value', alpha))
  /\ pc' = "ci"
  /\ UNCHANGED <<df, exc, paramVars, loadVars, countVars, zVars, ciVars,
                 twoVars>>

\* (p_exp_hat - p_con_hat) - SE * Z_crit, before it is rounded
LowerBound(pcon, pexp, se, zc) == FSub(FSub(pexp, pcon), FMul(se, zc))
\* (p_exp_hat - p_con_hat) + SE * Z_crit, before it is rounded
UpperBound(pcon, pexp, se, zc) == FAdd(FSub(pexp, pcon), FMul(se, zc))

\* CI = [round(..., 3), round(..., 3)]
ConfInt(pcon, pexp, se, zc) ==
  <<FRound(LowerBound(pcon, pexp, se, zc), 3),
    FRound(UpperBound(pcon, pexp, se, zc), 3)>>

PracticalMsg == "The results are practically significant."
NotPracticalMsg == "The results are NOT practically significant."

\* if lower_bound_CI >= delta: ... else: ...
PracticalVerdict(lower, dl) ==
  IF FLe(dl, lower) THEN PracticalMsg ELSE NotPracticalMsg

\* Cell "Confidence interval for a 2-sided Z-test"
CalcConfInt ==
  /\ pc = "ci"
  /\ CI' = ConfInt(p_con_hat, p_exp_hat, SE, Z_crit)
  /\ lower_bound_CI' = CI'[1]
  /\ stdout' = Append(stdout, PracticalVerdict(lower_bound_CI', delta))
  /\ pc' = "approach2"
  /\ UNCHANGED <<df, exc, paramVars, loadVars, countVars, zVars, p_value,
                 twoVars>>

(***************************************************************************)
(* statsmodels.stats.proportion                                            *)
(***************************************************************************)

\* _zstat_generic2: <<zstat, pvalue>> of the two-sided test
zstat_generic2(zstat) == <<zstat, FMul(NormSf(FAbs(zstat)), Two)>>

\* var_ = p_pooled * (1 - p_pooled) * nobs_fact
ztest_var(p_pooled, nobs_fact) ==
  FMul(FMul(p_pooled, FSub(One, p_pooled)), nobs_fact)

\* proportions_ztest(count, nobs) for two samples, two-sided, pooled
\* variance: <<zstat, pvalue>>.
proportions_ztest(count, n) ==
  zstat_generic2(
    FDiv(FSub(FDiv(Flt(count[1]), Flt(n[1])), FDiv(Flt(count[2]), Flt(n[2]))),
         FSqrt(ztest_var(FDiv(Flt(count[1] + count[2]), Flt(n[1] + n[2])),
                         FAdd(FDiv(One, Flt(n[1])), FDiv(One, Flt(n[2])))))))

\* np.clip(x, 0, 1); nan stays nan
Clip01(x) ==
  IF IsNaN(x) THEN NaN
  ELSE IF FLt(x, Zero) THEN Zero
  ELSE IF FLt(One, x) THEN One
  ELSE x

\* <<ci_low, ci_upp>> = q_ -/+ dist, clipped
confint_bounds(q_, dist) == <<Clip01(FSub(q_, dist)), Clip01(FAdd(q_, dist))>>

\* dist = norm.isf(alpha / 2.) * std_, std_ = np.sqrt(q_ * (1 - q_) / nobs)
confint_dist(q_, n, a) ==
  FMul(NormIsf(FDiv(a, Two)), FSqrt(FDiv(FMul(q_, FSub(One, q_)), Flt(n))))

\* proportion_confint(count, nobs, alpha, method='normal') of one sample
proportion_confint(count, n, a) ==
  confint_bounds(FDiv(Flt(count), Flt(n)),
                 confint_dist(FDiv(Flt(count), Flt(n)), n, a))

(***************************************************************************)
(* Cell "Approach two"                                                     *)
(***************************************************************************)

\* pooled_std_dev = np.sqrt(((N_con-1) * sd_con + (N_exp-1) * sd_exp) /
\*                          (N_con + N_exp - 2))
PooledStdDev(nc, ne, sdc, sde) ==
  FSqrt(FDiv(FAdd(FMul(Flt(nc - 1), sdc), FMul(Flt(ne - 1), sde)),
             Flt(nc + ne - 2)))

\* d = (CTR.loc['exp', 'CTR'] - CTR.loc['con', 'CTR']) / pooled_std_dev
CohensD(ctr_con, ctr_exp, psd) == FDiv(FSub(ctr_exp, ctr_con), psd)

\* The if/elif chain on d: when no branch is taken, effect keeps the value
\* it had (none, in a kernel that has not run the cell before).
EffectOf(dv, prev) ==
  IF FLe(Zero, dv) /\ FLt(dv, Num(20000000, -8)) THEN "little or no effect"
  ELSE IF FLe(Num(20000000, -8), dv) /\ FLt(dv, Half) THEN "small effect size"
  ELSE IF FLe(Half, dv) /\ FLt(dv, Num(80000000, -8)) THEN "medium effect size"
  ELSE IF FLe(Num(80000000, -8), dv) THEN "large effect size"
  ELSE prev

\* z_stat, pval = proportions_ztest(...)
AssignZTest(zt) == z_stat' = zt[1] /\ pval' = zt[2]

\* (lower_con, lower_exp), (upper_con, upper_exp) = proportion_confint(...)
AssignConfInt(ci_con, ci_exp) ==
  /\ lower_con' = ci_con[1] /\ upper_con' = ci_con[2]
  /\ lower_exp' = ci_exp[1] /\ upper_exp' = ci_exp[2]

ApproachTwo ==
  /\ pc = "approach2"
  /\ num_con' = Count(RowsOf(df, "con"))
  /\ num_exp' = Count(RowsOf(df, "exp"))
  /\ successes' = <<SumClick(RowsOf(df, "con")), SumClick(RowsOf(df, "exp"))>>
  /\ nobs' = <<num_con', num_exp'>>
  /\ AssignZTest(proportions_ztest(successes', nobs'))
  /\ AssignConfInt(proportion_confint(successes'[1], nobs'[1], Num(50000000, -9)),
                   proportion_confint(successes'[2], nobs'[2], Num(50000000, -9)))
  /\ delta_CI' = FSub(lower_exp', upper_con')
  /\ pooled_std_dev' = PooledStdDev(N_con, N_exp, CTR["con"].std_deviation,
                                    CTR["exp"].std_deviation)
  /\ d' = CohensD(CTR["con"].CTR, CTR["exp"].CTR, pooled_std_dev')
  /\ effect' = EffectOf(d', effect)
  \* the closing print reads effect: NameError when no branch assigned it
  /\ IF effect' = ""
     THEN /\ exc' = "NameError"
          /\ pc' = "halted"
          /\ stdout' = Append(stdout, PracticalVerdict(delta_CI', delta))
     ELSE /\ exc' = exc
          /\ pc' = "done"
          /\ stdout' = stdout \o <<PracticalVerdict(delta_CI', delta), effect'>>
  /\ UNCHANGED <<df, paramVars, loadVars, countVars, zVars, p_value, ciVars>>

Next ==
  \/ LoadData
  \/ Parameters
  \/ GetCounts
  \/ CalcPooledVariance
  \/ CalcTestStat
  \/ CalcPValue
  \/ CalcConfInt
  \/ ApproachTwo

Spec == Init /\ [][Next]_vars

(***************************************************************************)
(* Properties                                                              *)
(***************************************************************************)

\* Both groups have users, and between 0 and N clicks.
ValidGroups ==
  /\ N_con > 0 /\ N_exp > 0
  /\ X_con \in 0 .. N_con /\ X_exp \in 0 .. N_exp

PositiveSE == IsNum(SE) /\ SE.m > 0

\* The unrounded bounds of the interval, from the kernel's names.
Lower == LowerBound(p_con_hat, p_exp_hat, SE, Z_crit)
Upper == UpperBound(p_con_hat, p_exp_hat, SE, Z_crit)

Verdicts == {SigMsg, NotSigMsg}

\* C1: when the pooled click rate of two valid groups is 0 or 1, the Z-test
\* ends in a division-by-zero error: no test statistic and no p-value is
\* produced (no nan in particular), no significance verdict is printed and
\* the run does not go on past the test.
C1_DegenerateRaises ==
  (ValidGroups /\ p_pooled_hat \in {Zero, One}) =>
    /\ Test_stat = Unset
    /\ p_value = Unset
    /\ \A i \in DOMAIN stdout : stdout[i] \notin Verdicts
    /\ pc \notin {"ci", "approach2", "done"}

\* The group g has no summary, no user, a click value other than 0 and 1,
\* or more clicks than users.
InvalidSummary(g) ==
  \/ g \notin DOMAIN dfCounts
  \/ dfCounts[g].users = 0
  \/ \E i \in DOMAIN df : df[i].group = g /\ df[i].click \notin {0, 1}
  \/ dfCounts[g].click > dfCounts[g].users

\* C2: once the summaries are built, a group that has no user, an outcome
\* other than 0 and 1, or more clicks than users makes the run fail before
\* any rate or test result is computed from it.
C2_InvalidInputRejected ==
  (pc \notin {"load", "params", "counts"} /\ \E g \in Groups : InvalidSummary(g)) =>
    /\ pc = "halted" /\ exc \notin {"", "NameError"}
    /\ p_con_hat = Unset /\ p_exp_hat = Unset /\ p_pooled_hat = Unset
    /\ Test_stat = Unset /\ p_value = Unset

\* The bucketing of the thresholds 0.2, 0.5 and 0.8, each bucket closed on
\* its lower bound and the first open below.
ThresholdBucket(dv) ==
  IF FLt(dv, Num(20000000, -8)) THEN "little or no effect"
  ELSE IF FLt(dv, Half) THEN "small effect size"
  ELSE IF FLt(dv, Num(80000000, -8)) THEN "medium effect size"
  ELSE "large effect size"

\* C3: every value of Cohen's d gets exactly one category: negligible below
\* 0.2 (negative values included), small from 0.2, medium from 0.5, large
\* from 0.8.
C3_EveryDBucketed ==
  (d # Unset /\ IsNum(d) /\ ValidGroups /\ nobs = <<N_con, N_exp>>) =>
    effect = ThresholdBucket(d)

\* C4: for valid groups the practical-significance verdict of the pooled
\* interval is "practically significant" exactly when the lower bound
\* (p_exp_hat - p_con_hat) - SE * Z_crit is at least delta.
C4_VerdictIsLowerGeqDelta ==
  (CI # NoPair /\ ValidGroups /\ PositiveSE) =>
    (stdout[2] = PracticalMsg <=> FLe(delta, Lower))

\* C5: for valid groups with SE > 0, the Z-test run with the two groups
\* swapped has the same pooled rate, standard error, critical value, p-value
\* and significance verdict, the opposite test statistic, and the interval
\* <<-CI[1], -CI[0]>>.
C5_SwapSymmetry ==
  (CI # NoPair /\ ValidGroups /\ PositiveSE) =>
    /\ PooledRate(X_exp, X_con, N_exp, N_con) = p_pooled_hat
    /\ FSqrt(PooledVariance(p_pooled_hat, N_exp, N_con)) = SE
    /\ ZCrit(alpha) = Z_crit
    /\ TestStat(p_exp_hat, p_con_hat, SE) = FNeg(Test_stat)
    /\ PValue(FNeg(Test_stat)) = p_value
    /\ SignificanceMsg(PValue(FNeg(Test_stat)), alpha) = stdout[1]
    /\ ConfInt(p_exp_hat, p_con_hat, SE, Z_crit) = <<FNeg(CI[2]), FNeg(CI[1])>>

\* Two valid groups of different sizes and different rates, tested.
C5_Witness ==
  /\ CI # NoPair /\ ValidGroups /\ PositiveSE
  /\ N_con # N_exp
  /\ Test_stat.m < 0
  /\ stdout[1] = SigMsg

SameGroups == N_con = N_exp /\ X_con = X_exp

ZeroTest ==
  /\ Test_stat = Zero
  /\ p_value = One
  /\ stdout[1] = NotSigMsg

Midpoint == FDiv(FAdd(Lower, Upper), Two)

\* C7: for valid groups with SE > 0, the test statistic is negative exactly
\* when the experimental rate is above the control rate and positive exactly
\* when it is below; the midpoint of the interval's bounds has the opposite
\* sign (zero together with the statistic), and the midpoint of the rounded
\* bounds never has the sign of the statistic.
C7_SignConvention ==
  (CI # NoPair /\ ValidGroups /\ PositiveSE) =>
    /\ Test_stat.m < 0 <=> FLt(p_con_hat, p_exp_hat)
    /\ Test_stat.m > 0 <=> FLt(p_exp_hat, p_con_hat)
    /\ IsNum(Test_stat) /\ IsNum(Midpoint)
    /\ Sgn(Midpoint.m) = -Sgn(Test_stat.m)
    /\ Sgn(FAdd(CI[1], CI[2]).m) \in {0, -Sgn(Test_stat.m)}

\* The experimental rate is the higher one: the statistic is negative and
\* the interval is centred above zero.
C7_Witness ==
  /\ CI # NoPair /\ ValidGroups /\ PositiveSE
  /\ FLt(p_con_hat, p_exp_hat)
  /\ Test_stat.m < 0
  /\ Midpoint.m > 0

\* The experiment of 40000 users per group, 1580 and 1850 clicks, tested at
\* alpha = 0.05.
Scenario ==
  /\ p_value # Unset
  /\ N_con = 40000 /\ X_con = 1580 /\ N_exp = 40000 /\ X_exp = 1850
  /\ alpha = Num(50000000, -9)

ScenarioRates ==
  /\ p_con_hat = Num(39500000, -9)
  /\ p_exp_hat = Num(46250000, -9)
  /\ p_pooled_hat = Num(42875000, -9)
  /\ stdout[1] = SigMsg

\* C8 as stated: in the scenario the rates are 0.0395 and 0.04625, the
\* pooled rate is 0.042875, the test statistic rounds to -2.79 and the
\* result is significant.
C8_ScenarioZ279 ==
  Scenario => (ScenarioRates /\ FRound(Test_stat, 2) = Num(-27900000, -7))

\* C8 amended: in the scenario the rates are 0.0395 and 0.04625, the pooled
\* rate is 0.042875, the test statistic rounds to -4.71 and the result is
\* significant.
C8_ScenarioZ471 ==
  Scenario => (ScenarioRates /\ FRound(Test_stat, 2) = Num(-47100000, -7))

C8_Witness == Scenario /\ pc = "done" /\ Test_stat.m < 0

\* C9: for rows with clicks of 0 and 1, each group's size and rate are the
\* same in every part of the run:
\* the distinct-user count N of the Z-test is the row count nobs of approach
\* two, the rate X / N of the Z-test is the per-row mean of click, and that
\* rate is at most 1.
C9_SizesAndRatesAgree ==
  (\A i \in DOMAIN df : df[i].click \in {0, 1}) =>
  /\ p_con_hat # Unset =>
       /\ p_con_hat = CTR["con"].CTR /\ p_exp_hat = CTR["exp"].CTR
       /\ FLe(p_con_hat, One) /\ FLe(p_exp_hat, One)
  /\ nobs # <<>> => nobs = <<N_con, N_exp>>

\* C10: for valid groups with SE > 0, the verdict is "significant" exactly
\* when zero is not strictly inside the reported interval <<CI[0], CI[1]>>.
C10_VerdictMatchesInterval ==
  (CI # NoPair /\ ValidGroups /\ PositiveSE) =>
    (stdout[1] = SigMsg <=> ~(FLt(CI[1], Zero) /\ FLt(Zero, CI[2])))

====
